---- MODULE Spec2Model ----
(***************************************************************************)
(* A model of the Slack integration handlers of the HTTP server (package   *)
(* api): the event dispatcher AcknowledgeSlackEvent, the unfurl path       *)
(* handleLinkSharedEvent / sendUnfurlEvent, the link extractor             *)
(* extractURLInfo, the share handler ShareToSlack, the channel list        *)
(* GetSlackChannels and the preview GeneratePreview; and of the dashboard  *)
(* toolbar ToolbarActions as its tests describe it.                        *)
(*                                                                         *)
(* Go strings that the code inspects or formats are sequences of           *)
(* one-character strings, so that the regular expression, filepath.Base    *)
(* and fmt.Sprintf are computed character by character.                    *)
(***************************************************************************)
EXTENDS Integers, Sequences, FiniteSets, TLC

VARIABLES
    cfg,      \* hs.Cfg: the server configuration
    pc,       \* position of the /slack/events handler
    body,     \* the inbound webhook body of the request being handled
    ret,      \* the return value AcknowledgeSlackEvent has set, not yet delivered
    resp,     \* the response delivered to the caller of AcknowledgeSlackEvent
    trace,    \* the calls made for the current event request, in order
    posted,   \* the bodies posted to chat.unfurl for the current event request
    locals,   \* locals of handleLinkSharedEvent
    exUrl,    \* argument of a call of extractURLInfo
    exOut,    \* its result
    shPc,     \* position of the share handler
    shIn,     \* its inputs: dashboard lookup result and request body
    shIdx,    \* index of the channel the loop is at
    shPosts,  \* the chat.postMessage calls attempted, in order
    shResp,   \* the response ShareToSlack returned
    shMemo,   \* history: an earlier share request and the posts it made
    chPc,     \* position of GetSlackChannels
    chTrace,  \* the calls GetSlackChannels made
    chResp,   \* the response GetSlackChannels returned
    pvPc,     \* position of GeneratePreview
    pvIn,     \* its request body
    pvTrace,  \* the calls GeneratePreview made
    pvResp,   \* the response GeneratePreview returned
    pvMemo,   \* history: an earlier preview, its rendered file and its URL
    imCfg,    \* configuration of a call of getImageURL
    imName,   \* argument of a call of getImageURL
    imOut,    \* its result
    tbEditing,  \* dashboard toolbar: the dashboard is being edited
    tbView,     \* dashboard toolbar: the view shown, dashboard or settings
    tbPlaying,  \* playlistSrv.isPlaying
    tbCalls,    \* calls of playlistSrv.prev, next and stop so far
    tbClicks,   \* clicks of the user on the prev, next and stop controls so far
    tbLast,     \* the last thing the user did to the toolbar
    bqFilters,  \* argument of a call of buildQueryParams
    bqOut,      \* its result
    rhStore,    \* query history: the entries the backend holds
    rhCalls,    \* the getRichHistory calls made so far and their fetches
    rhDeletes,  \* the deleteRichHistory calls made so far and their requests
    stPrefs,    \* the home tab in the user preferences the backend holds
    stUpdate,   \* the updateSettings call at hand
    stGet       \* the getSettings call at hand

vars == <<cfg, pc, body, ret, resp, trace, posted, locals, exUrl, exOut,
          shPc, shIn, shIdx, shPosts, shResp, shMemo,
          chPc, chTrace, chResp, pvPc, pvIn, pvTrace, pvResp, pvMemo,
          imCfg, imName, imOut, tbEditing, tbView, tbPlaying, tbCalls, tbClicks, tbLast,
          bqFilters, bqOut, rhStore, rhCalls, rhDeletes, stPrefs, stUpdate, stGet>>

eventVars == <<pc, body, ret, resp, trace, posted, locals>>
extractVars == <<exUrl, exOut>>
shareVars == <<shPc, shIn, shIdx, shPosts, shResp>>
channelsVars == <<chPc, chTrace, chResp>>
previewVars == <<pvPc, pvIn, pvTrace, pvResp>>
imageVars == <<imCfg, imName, imOut>>
toolbarVars == <<tbEditing, tbView, tbPlaying, tbCalls, tbClicks, tbLast>>
\* everything but the variables of the event, extract and share handlers
paramsVars == <<bqFilters, bqOut>>
historyVars == <<rhStore, rhCalls, rhDeletes>>
settingsVars == <<stPrefs, stUpdate, stGet>>
clientVars == <<paramsVars, historyVars, settingsVars>>
otherVars == <<shMemo, pvMemo, channelsVars, previewVars, imageVars, toolbarVars, clientVars>>

(***************************************************************************)
(* Bounds of the model.                                                    *)
(***************************************************************************)
MaxUrlLen == 7
MaxLinks == 2
MaxChannels == 2
MaxClicks == 2

(***************************************************************************)
(* Strings.                                                                *)
(***************************************************************************)
NL == "\n"

Min(S) == CHOOSE x \in S : \A y \in S : x <= y
Max(S) == CHOOSE x \in S : \A y \in S : y <= x

RECURSIVE StringsUpTo(_, _)
StringsUpTo(A, n) ==
    IF n = 0 THEN {<<>>}
    ELSE LET shorter == StringsUpTo(A, n - 1)
         IN  shorter \cup {Append(s, c) : s \in {t \in shorter : Len(t) = n - 1}, c \in A}

(***************************************************************************)
(* The regular expression of extractURLInfo, as Go's regexp package        *)
(* matches it.  The pattern is: any characters (greedy), then a group made *)
(* of the literal /d/, a second group of characters other than a slash     *)
(* (greedy), a slash, and any characters (greedy).  The match is the       *)
(* leftmost one, and among the matches starting there the one a            *)
(* backtracking matcher finds first: a greedy operator takes the longest   *)
(* repetition that lets the rest match.  A dot matches any character       *)
(* except a line feed; the negated class matches a line feed too.          *)
(***************************************************************************)
\* the longest run of characters "." matches, starting at position i
DotRun(s, i) ==
    Max({k \in 0..(Len(s) + 1 - i) : \A j \in i..(i + k - 1) : s[j] # NL})

\* the longest run of characters other than a slash, starting at position i
ClassRun(s, i) ==
    Max({k \in 0..(Len(s) + 1 - i) : \A j \in i..(i + k - 1) : s[j] # "/"})

\* the literal /d/ at position p
LitAt(s, p) ==
    /\ p >= 1
    /\ p + 2 <= Len(s)
    /\ s[p] = "/"
    /\ s[p + 1] = "d"
    /\ s[p + 2] = "/"

\* the lengths of the second group at p + 3 after which the slash matches
UidLens(s, p) ==
    {m \in 0..ClassRun(s, p + 3) : p + 3 + m <= Len(s) /\ s[p + 3 + m] = "/"}

\* the lengths of the leading repetition at i after which the group can match
PrefixLens(s, i) ==
    {k \in 0..DotRun(s, i) : LitAt(s, i + k) /\ UidLens(s, i + k) # {}}

\* the positions at which a match can start
MatchStarts(s) == {i \in 1..(Len(s) + 1) : PrefixLens(s, i) # {}}

\* re.FindStringSubmatch: <<>> (nil) or <<match, group 1, group 2>>
FindStringSubmatch(s) ==
    IF MatchStarts(s) = {} THEN <<>>
    ELSE LET i == Min(MatchStarts(s))
             p == i + Max(PrefixLens(s, i))
             m == Max(UidLens(s, p))
             q == p + 3 + m + 1
             e == q + DotRun(s, q) - 1
         IN  <<SubSeq(s, i, e), SubSeq(s, p, e), SubSeq(s, p + 3, p + 3 + m - 1)>>

\* a slip in the pattern: the group ends at the slash after the uid
FindStringSubmatchNoTail(s) ==
    IF MatchStarts(s) = {} THEN <<>>
    ELSE LET i == Min(MatchStarts(s))
             p == i + Max(PrefixLens(s, i))
             m == Max(UidLens(s, p))
             e == p + 3 + m
         IN  <<SubSeq(s, i, e), SubSeq(s, p, e), SubSeq(s, p + 3, p + 3 + m - 1)>>

extractURLInfoNoTail(dashboardURL) ==
    LET res == FindStringSubmatchNoTail(dashboardURL)
    IN  IF Len(res) # 3 THEN <<<<>>, <<>>>> ELSE <<res[2], res[3]>>

\* a slip in the pattern: a leading repetition that takes as little as it can
FindStringSubmatchLazy(s) ==
    IF MatchStarts(s) = {} THEN <<>>
    ELSE LET i == Min(MatchStarts(s))
             p == i + Min(PrefixLens(s, i))
             m == Max(UidLens(s, p))
             q == p + 3 + m + 1
             e == q + DotRun(s, q) - 1
         IN  <<SubSeq(s, i, e), SubSeq(s, p, e), SubSeq(s, p + 3, p + 3 + m - 1)>>

extractURLInfoFirstSegment(dashboardURL) ==
    LET res == FindStringSubmatchLazy(dashboardURL)
    IN  IF Len(res) # 3 THEN <<<<>>, <<>>>> ELSE <<res[2], res[3]>>

\* extractURLInfo returns the render path and the dashboard UID
extractURLInfo(dashboardURL) ==
    LET res == FindStringSubmatch(dashboardURL)
    IN  IF Len(res) # 3 THEN <<<<>>, <<>>>> ELSE <<res[2], res[3]>>

(***************************************************************************)
(* Configuration (hs.Cfg) and the image URL.                               *)
(***************************************************************************)
sHttp == <<"h", "t", "t", "p">>
sHttps == <<"h", "t", "t", "p", "s">>
sH2 == <<"h", "2">>
sSocket == <<"s", "o", "c", "k", "e", "t">>
sLocalhost == <<"l", "o", "c", "a", "l", "h", "o", "s", "t">>
sAnyAddr == <<"0", ".", "0", ".", "0", ".", "0">>
sAttachments == <<"p", "u", "b", "l", "i", "c", "/", "i", "m", "g", "/",
                  "a", "t", "t", "a", "c", "h", "m", "e", "n", "t", "s">>

Configs ==
    [Protocol : {sHttp, sHttps, sH2, sSocket},
     HTTPAddr : {sAnyAddr, <<"g", "r">>},
     HTTPPort : {<<"8", "0">>},
     ServeFromSubPath : BOOLEAN,
     AppSubURL : {<<"/", "g">>},
     RendererCallbackUrl : {<<>>, <<"c", "b", "/">>},
     SlackToken : {<<"t">>}]

DefaultCfg ==
    [Protocol |-> sHttp, HTTPAddr |-> sAnyAddr, HTTPPort |-> <<"8", "0">>,
     ServeFromSubPath |-> FALSE, AppSubURL |-> <<"/", "g">>,
     RendererCallbackUrl |-> <<>>, SlackToken |-> <<"t">>]

\* a switch that leaves the h2 scheme as it is
schemeOfKeepingH2(protocol) ==
    IF protocol = sHttp THEN sHttp
    ELSE IF protocol = sHttps THEN sHttps
    ELSE protocol

\* the switch on hs.Cfg.Protocol
schemeOf(protocol) ==
    IF protocol = sHttp THEN sHttp
    ELSE IF protocol = sH2 \/ protocol = sHttps THEN sHttps
    ELSE protocol

domainOf(c) == IF c.HTTPAddr # sAnyAddr THEN c.HTTPAddr ELSE sLocalhost

getImageURL(c, imageName) ==
    IF c.RendererCallbackUrl # <<>>
    THEN c.RendererCallbackUrl \o sAttachments \o <<"/">> \o imageName
    ELSE LET subPath == IF c.ServeFromSubPath THEN c.AppSubURL ELSE <<>>
         IN  schemeOf(c.Protocol) \o <<":", "/", "/">> \o domainOf(c) \o <<":">>
             \o c.HTTPPort \o subPath \o <<"/">> \o sAttachments \o <<"/">> \o imageName

(***************************************************************************)
(* Inbound webhook bodies (EventPayload, Event, Link).  A body either      *)
(* fails to decode (web.Bind returns an error) or decodes into a payload;  *)
(* fields the handlers never read are left out.                            *)
(***************************************************************************)
uMatchA == <<"/", "d", "/", "a", "/", "x">>
uMatchB == <<"h", "/", "d", "/", "b", "/">>
uNoMatch == <<"h", "/", "d", "/", "a">>
LinkURLs == {uMatchA, uMatchB, uNoMatch}

Links == [URL : LinkURLs]
LinkLists == UNION {[1..n -> Links] : n \in 0..MaxLinks}

Events ==
    [Type : {"link_shared", "app_mention"},
     Source : {"conversations_history", "composer"},
     Channel : {"C1"},
     MessageTS : {"17.01"},
     Links : LinkLists]

ZeroEvent == [Type |-> "", Source |-> "", Channel |-> "", MessageTS |-> "", Links |-> <<>>]

Payloads ==
    [Type : {"url_verification", "event_callback", "app_rate_limited"},
     Challenge : {"abc123", "xyz"},
     Token : {"tok"},
     Event : Events]

ZeroPayload == [Type |-> "", Challenge |-> "", Token |-> "", Event |-> ZeroEvent]

NoBody == [decodes |-> FALSE, payload |-> ZeroPayload]
Bodies == {NoBody} \cup [decodes : {TRUE}, payload : Payloads]

(***************************************************************************)
(* The states in which a handler is not running.                           *)
(***************************************************************************)
NoResponse == [status |-> 0, kind |-> "none", payload |-> ""]
\* slack is the outcome of the chat.unfurl call, err the error that
\* sendUnfurlEvent returned
NoLocals ==
    [renderPath |-> <<>>, dashboardUID |-> <<>>, title |-> <<>>, imagePath |-> <<>>,
     slack |-> "none", err |-> ""]

EventIdle ==
    /\ pc = "idle"
    /\ body = NoBody
    /\ ret = NoResponse
    /\ resp = NoResponse
    /\ trace = <<>>
    /\ posted = <<>>
    /\ locals = NoLocals

ZeroShareRequest ==
    [ChannelIds |-> <<>>, Message |-> "", ImagePreviewUrl |-> "", DashboardPath |-> <<>>]

NoShareInput == [found |-> FALSE, decodes |-> FALSE, uid |-> <<>>, req |-> ZeroShareRequest]

ShareIdle ==
    /\ shPc = "idle"
    /\ shIn = NoShareInput
    /\ shIdx = 0
    /\ shPosts = <<>>
    /\ shResp = NoResponse

NotExtracted == [called |-> FALSE, renderPath |-> <<>>, uid |-> <<>>]

ExtractIdle ==
    /\ exUrl = <<>>
    /\ exOut = NotExtracted

NoShareMemo == [set |-> FALSE, in |-> NoShareInput, requests |-> <<>>]

NoChannelsResponse == [status |-> 0, kind |-> "none", message |-> "", channels |-> <<>>]

ChannelsIdle ==
    /\ chPc = "idle"
    /\ chTrace = <<>>
    /\ chResp = NoChannelsResponse

NoPreviewInput == [decodes |-> FALSE, DashboardURL |-> <<>>]
NoPreviewResponse == [status |-> 0, kind |-> "none", message |-> "", PreviewURL |-> <<>>]
NoPreviewMemo == [set |-> FALSE, filePath |-> <<>>, PreviewURL |-> <<>>]

PreviewIdle ==
    /\ pvPc = "idle"
    /\ pvIn = NoPreviewInput
    /\ pvTrace = <<>>
    /\ pvResp = NoPreviewResponse

NoImageURL == [called |-> FALSE, url |-> <<>>]

ImageIdle ==
    /\ imCfg = DefaultCfg
    /\ imName = <<>>
    /\ imOut = NoImageURL

NoPlaylistCalls == [prev |-> 0, next |-> 0, stop |-> 0]

\* the toolbar is not rendered
ToolbarIdle ==
    /\ tbEditing = FALSE
    /\ tbView = "unmounted"
    /\ tbPlaying = FALSE
    /\ tbCalls = NoPlaylistCalls
    /\ tbClicks = NoPlaylistCalls
    /\ tbLast = "none"

\* the query history client (RichHistoryRemoteStorage) has made no call
NoFilters ==
    [datasourceFilters |-> <<>>, search |-> <<>>, sortOrder |-> "", starred |-> FALSE,
     from |-> 0, to |-> 0, page |-> <<>>]

NoQueryParams == [called |-> FALSE, params |-> <<>>]

ParamsIdle ==
    /\ bqFilters = NoFilters
    /\ bqOut = NoQueryParams

HistoryIdle ==
    /\ rhStore = {}
    /\ rhCalls = <<>>
    /\ rhDeletes = <<>>

NoSettings ==
    [activeDatasourceOnly |-> FALSE, lastUsedDatasourceFilters |-> "undefined",
     retentionPeriod |-> 0, starredTabAsFirstTab |-> FALSE]

NoUpdate == [state |-> "idle", settings |-> NoSettings, homeTab |-> ""]

\* after: the call was made when the last updateSettings had completed, and
\* no updateSettings was called since
NoGet == [state |-> "idle", after |-> FALSE, out |-> NoSettings]

SettingsIdle ==
    /\ stPrefs = "unset"
    /\ stUpdate = NoUpdate
    /\ stGet = NoGet

ClientIdle ==
    /\ ParamsIdle
    /\ HistoryIdle
    /\ SettingsIdle

OthersIdle ==
    /\ shMemo = NoShareMemo
    /\ pvMemo = NoPreviewMemo
    /\ ChannelsIdle
    /\ PreviewIdle
    /\ ImageIdle
    /\ ToolbarIdle
    /\ ClientIdle

(***************************************************************************)
(* The link extractor on its own: every string over UrlAlphabet of at most *)
(* MaxUrlLen characters is given to extractURLInfo.                        *)
(***************************************************************************)
UrlAlphabet == {"/", "d", "a", NL}

InitExtract ==
    /\ cfg = DefaultCfg
    /\ EventIdle
    /\ ShareIdle
    /\ exUrl \in StringsUpTo(UrlAlphabet, MaxUrlLen)
    /\ exOut = NotExtracted
    /\ OthersIdle

CallExtractURLInfo ==
    /\ ~exOut.called
    /\ LET r == extractURLInfo(exUrl)
       IN  exOut' = [called |-> TRUE, renderPath |-> r[1], uid |-> r[2]]
    /\ UNCHANGED <<cfg, exUrl, eventVars, shareVars, otherVars>>

NextExtract == CallExtractURLInfo

SpecExtract == InitExtract /\ [][NextExtract]_vars

\* a URL has no line break in it
IsURLString(u) == \A j \in 1..Len(u) : u[j] # NL

\* u holds /d/ at p and a slash at q after it, none between: /d/<uid>/<slug>
SegmentAt(u, p, q) ==
    /\ p + 2 <= Len(u)
    /\ SubSeq(u, p, p + 2) = <<"/", "d", "/">>
    /\ q >= p + 3
    /\ u[q] = "/"
    /\ \A j \in (p + 3)..(q - 1) : u[j] # "/"

HasDashboardSegment(u) ==
    \E p \in 1..Len(u) : \E q \in 1..Len(u) : SegmentAt(u, p, q)

\* C5: for a URL string that contains a segment /d/<uid>/<slug>,
\* extractURLInfo returns the URL from a "/d/" to its end as renderPath and
\* the <uid> following that "/d/" as dashboard identifier; for a URL string
\* that contains none (also one ending in /d/<uid>) it returns two empty
\* strings.
C5_ExtractContract ==
    (exOut.called /\ IsURLString(exUrl)) =>
        IF HasDashboardSegment(exUrl)
        THEN \E p \in 1..Len(exUrl) : \E q \in 1..Len(exUrl) :
                /\ SegmentAt(exUrl, p, q)
                /\ exOut.renderPath = SubSeq(exUrl, p, Len(exUrl))
                /\ exOut.uid = SubSeq(exUrl, p + 3, q - 1)
        ELSE exOut.renderPath = <<>> /\ exOut.uid = <<>>

C5_Witness ==
    /\ exOut.called
    /\ exUrl = <<"a", "/", "d", "/", "a", "/", "d">>
    /\ exOut.renderPath = <<"/", "d", "/", "a", "/", "d">>
    /\ exOut.uid = <<"a">>

(***************************************************************************)
(* Responses (package response) and the calls a handler makes.             *)
(***************************************************************************)
Empty(status) == [status |-> status, kind |-> "empty", payload |-> ""]
Error(status, message) == [status |-> status, kind |-> "error", payload |-> message]
ChallengeAck(challenge) == [status |-> 200, kind |-> "challenge", payload |-> challenge]

Call(op, ok, arg) == [op |-> op, ok |-> ok, arg |-> arg]

\* what the dashboard service and the render service can answer
DashboardTitle(uid) == <<"T", ":">> \o uid
RenderedFiles ==
    {<<"/", "p", "/", "i", ".", "p", "n", "g">>, <<"i", ".", "p", "n", "g">>,
     <<"j", ".", "p", "n", "g">>}
SlackOutcomes == {"ok", "neterr", "readerr"}

(***************************************************************************)
(* AcknowledgeSlackEvent.                                                  *)
(***************************************************************************)
\* the event_callback case ignoring the event's source
dispatchIgnoringSource(b) ==
    IF ~b.decodes THEN "bad_request"
    ELSE IF b.payload.Type = "url_verification" THEN "challenge"
    ELSE IF /\ b.payload.Type = "event_callback"
            /\ b.payload.Event.Type = "link_shared"
         THEN "link_shared"
    ELSE "unhandled"

\* web.Bind and the switch on eventPayload.Type
dispatch(b) ==
    IF ~b.decodes THEN "bad_request"
    ELSE IF b.payload.Type = "url_verification" THEN "challenge"
    ELSE IF /\ b.payload.Type = "event_callback"
            /\ b.payload.Event.Type = "link_shared"
            /\ b.payload.Event.Source = "conversations_history"
         THEN "link_shared"
    ELSE "unhandled"

\* the acknowledgement echoing the token instead of the challenge
challengeResponseOfToken(payload) == ChallengeAck(payload.Token)

\* response.JSON(200, &EventChallengeAck{Challenge: eventPayload.Challenge})
challengeResponse(payload) == ChallengeAck(payload.Challenge)

\* The handler up to its return statement.  In the link_shared case the
\* return value is set and the deferred call of handleLinkSharedEvent runs
\* before the function returns.
AcknowledgeSlackEvent ==
    /\ pc = "idle"
    /\ \E b \in Bodies :
        /\ body' = b
        /\ LET d == dispatch(b)
           IN  /\ ret' = CASE d = "bad_request" -> Error(400, "error parsing body")
                           [] d = "challenge" -> challengeResponse(b.payload)
                           [] d = "link_shared" -> Empty(200)
                           [] OTHER -> Error(400, "not handling this event type")
               /\ pc' = IF d = "link_shared" THEN "deferred" ELSE "return"
    /\ UNCHANGED <<cfg, resp, trace, posted, locals, extractVars, shareVars, otherVars>>

\* the function returns: its return value reaches the caller
AckReturn ==
    /\ pc = "return"
    /\ resp' = ret
    /\ trace' = Append(trace, Call("respond", TRUE, <<>>))
    /\ pc' = "done"
    /\ UNCHANGED <<cfg, body, ret, posted, locals, extractVars, shareVars, otherVars>>

\* a handler that works on the last link of the event
HlsExtractLastLink ==
    /\ pc = "deferred"
    /\ LET links == body.payload.Event.Links
       IN  IF Len(links) = 0
           THEN /\ pc' = "panicked"
                /\ UNCHANGED <<trace, locals>>
           ELSE LET r == extractURLInfo(links[Len(links)].URL)
                IN  /\ locals' = [locals EXCEPT !.renderPath = r[1], !.dashboardUID = r[2]]
                    /\ trace' = Append(trace, Call("extract", r[1] # <<>>, links[Len(links)].URL))
                    /\ pc' = IF r[1] = <<>> THEN "return" ELSE "fetch"
    /\ UNCHANGED <<cfg, body, ret, resp, posted, extractVars, shareVars, otherVars>>

(***************************************************************************)
(* handleLinkSharedEvent, the deferred call.                               *)
(***************************************************************************)
\* event.Event.Links[0] and extractURLInfo; indexing an empty slice panics,
\* and the panic leaves AcknowledgeSlackEvent without a return value
HlsExtract ==
    /\ pc = "deferred"
    /\ LET links == body.payload.Event.Links
       IN  IF Len(links) = 0
           THEN /\ pc' = "panicked"
                /\ UNCHANGED <<trace, locals>>
           ELSE LET r == extractURLInfo(links[1].URL)
                IN  /\ locals' = [locals EXCEPT !.renderPath = r[1], !.dashboardUID = r[2]]
                    /\ trace' = Append(trace, Call("extract", r[1] # <<>>, links[1].URL))
                    /\ pc' = IF r[1] = <<>> THEN "return" ELSE "fetch"
    /\ UNCHANGED <<cfg, body, ret, resp, posted, extractVars, shareVars, otherVars>>

\* hs.DashboardService.GetDashboard
HlsGetDashboard ==
    /\ pc = "fetch"
    /\ \E found \in BOOLEAN :
        /\ trace' = Append(trace, Call("fetch", found, locals.dashboardUID))
        /\ locals' = [locals EXCEPT !.title =
                        IF found THEN DashboardTitle(locals.dashboardUID) ELSE <<>>]
        /\ pc' = IF found THEN "render" ELSE "return"
    /\ UNCHANGED <<cfg, body, ret, resp, posted, extractVars, shareVars, otherVars>>

\* a render failure that does not stop the pipeline
HlsRenderDashboardNoAbort ==
    /\ pc = "render"
    /\ \E ok \in BOOLEAN : \E f \in RenderedFiles :
        /\ trace' = Append(trace, Call("render", ok, locals.renderPath))
        /\ locals' = [locals EXCEPT !.imagePath = IF ok THEN f ELSE <<>>]
        /\ pc' = "send"
    /\ UNCHANGED <<cfg, body, ret, resp, posted, extractVars, shareVars, otherVars>>

\* hs.renderDashboard
HlsRenderDashboard ==
    /\ pc = "render"
    /\ \E ok \in BOOLEAN : \E f \in RenderedFiles :
        /\ trace' = Append(trace, Call("render", ok, locals.renderPath))
        /\ locals' = [locals EXCEPT !.imagePath = IF ok THEN f ELSE <<>>]
        /\ pc' = IF ok THEN "send" ELSE "return"
    /\ UNCHANGED <<cfg, body, ret, resp, posted, extractVars, shareVars, otherVars>>

(***************************************************************************)
(* sendUnfurlEvent.                                                        *)
(***************************************************************************)
\* the number of trailing slashes of path
TrailingSlashes(path) ==
    Max({k \in 0..Len(path) : \A j \in (Len(path) - k + 1)..Len(path) : path[j] = "/"})

\* filepath.Base: the last element of path, trailing slashes removed
filepathBase(path) ==
    IF path = <<>> THEN <<".">>
    ELSE LET stripped == SubSeq(path, 1, Len(path) - TrailingSlashes(path))
             slashes == {j \in 1..Len(stripped) : stripped[j] = "/"}
         IN  IF stripped = <<>> THEN <<"/">>
             ELSE IF slashes = {} THEN stripped
             ELSE SubSeq(stripped, Max(slashes) + 1, Len(stripped))

PlainText(text) == [Type |-> "plain_text", Text |-> text]

\* the Unfurl built for one link
unfurlFor(link, imageURL, dashboardTitle) ==
    [Blocks |-> <<
        [Type |-> "header", Text |-> PlainText(dashboardTitle)],
        [Type |-> "section",
         Text |-> PlainText("Here is the dashboard that I wanted to show you")],
        [Type |-> "image", Title |-> PlainText("Dashboard preview"),
         ImageURL |-> imageURL, AltText |-> "dashboard preview"],
        [Type |-> "actions",
         Elements |-> <<[Type |-> "button", Text |-> PlainText("View Dashboard"),
                         Style |-> "primary", Value |-> link.URL, URL |-> link.URL]>>]
    >>]

\* eventPayload.Unfurls after the first k rounds of the loop over the links
RECURSIVE unfurlsAfter(_, _, _, _)
unfurlsAfter(links, k, imageURL, dashboardTitle) ==
    IF k = 0 THEN <<>>
    ELSE LET before == unfurlsAfter(links, k - 1, imageURL, dashboardTitle)
             key == links[k].URL
         IN  [u \in (DOMAIN before) \cup {key} |->
                 IF u = key THEN unfurlFor(links[k], imageURL, dashboardTitle)
                 ELSE before[u]]

\* an unfurl for the first link only
unfurlsOfFirstLink(links, imageURL, dashboardTitle) ==
    unfurlsAfter(links, 1, imageURL, dashboardTitle)

\* the loop over linkEvent.Event.Links
unfurlsOf(links, imageURL, dashboardTitle) ==
    unfurlsAfter(links, Len(links), imageURL, dashboardTitle)

\* the UnfurlEventPayload that is marshalled and posted
unfurlEventPayload(c, linkEvent, imagePath, dashboardTitle) ==
    [Channel |-> linkEvent.Event.Channel,
     TS |-> linkEvent.Event.MessageTS,
     Unfurls |-> unfurlsOf(linkEvent.Event.Links,
                           getImageURL(c, filepathBase(imagePath)), dashboardTitle)]

\* the error returned by sendUnfurlEvent for each outcome of the Slack call
unfurlError(o) ==
    IF o = "neterr" THEN "client: error making http request"
    ELSE IF o = "readerr" THEN "client: could not read response body"
    ELSE ""

\* a client that posts again when the first post fails
SendUnfurlEventRetrying ==
    /\ pc = "send"
    /\ \E o \in SlackOutcomes :
        LET p == unfurlEventPayload(cfg, body.payload, locals.imagePath, locals.title)
        IN  /\ posted' = IF o = "ok" THEN Append(posted, p) ELSE posted \o <<p, p>>
            /\ trace' = IF o = "ok" THEN Append(trace, Call("post", TRUE, <<>>))
                        ELSE trace \o <<Call("post", FALSE, <<>>), Call("post", TRUE, <<>>)>>
            /\ locals' = [locals EXCEPT !.slack = o, !.err = unfurlError(o)]
    /\ pc' = "return"
    /\ UNCHANGED <<cfg, body, ret, resp, extractVars, shareVars, otherVars>>

\* hs.sendUnfurlEvent: one http.DefaultClient.Do; its error, or the error of
\* reading the response, is returned to handleLinkSharedEvent, which logs it
SendUnfurlEvent ==
    /\ pc = "send"
    /\ \E o \in SlackOutcomes :
        /\ posted' = Append(posted,
               unfurlEventPayload(cfg, body.payload, locals.imagePath, locals.title))
        /\ trace' = Append(trace, Call("post", o = "ok", <<>>))
        /\ locals' = [locals EXCEPT !.slack = o, !.err = unfurlError(o)]
    /\ pc' = "return"
    /\ UNCHANGED <<cfg, body, ret, resp, extractVars, shareVars, otherVars>>

\* the server takes the next request; nothing of the last one is kept
NextEventRequest ==
    /\ pc \in {"done", "panicked"}
    /\ pc' = "idle"
    /\ body' = NoBody
    /\ ret' = NoResponse
    /\ resp' = NoResponse
    /\ trace' = <<>>
    /\ posted' = <<>>
    /\ locals' = NoLocals
    /\ UNCHANGED <<cfg, extractVars, shareVars, otherVars>>

InitEvent ==
    /\ cfg \in Configs
    /\ EventIdle
    /\ ExtractIdle
    /\ ShareIdle
    /\ OthersIdle

NextEvent ==
    \/ AcknowledgeSlackEvent
    \/ AckReturn
    \/ HlsExtract
    \/ HlsGetDashboard
    \/ HlsRenderDashboard
    \/ SendUnfurlEvent
    \/ NextEventRequest

SpecEvent == InitEvent /\ [][NextEvent]_vars

(***************************************************************************)
(* Properties of the event dispatcher and the unfurl path (SpecEvent).     *)
(***************************************************************************)
\* an event_callback carrying a link_shared event from conversations_history
Qualifying(b) ==
    /\ b.decodes
    /\ b.payload.Type = "event_callback"
    /\ b.payload.Event.Type = "link_shared"
    /\ b.payload.Event.Source = "conversations_history"

IsUrlVerification(b) == b.decodes /\ b.payload.Type = "url_verification"

HandlerEnded == pc \in {"done", "panicked"}

CallsOf(ops) == {i \in 1..Len(trace) : trace[i].op \in ops}

NoUnfurlWork ==
    /\ posted = <<>>
    /\ CallsOf({"extract", "fetch", "render", "post"}) = {}

\* C1: every qualifying link_shared event, whatever its list of links, is
\* answered with an empty 200 response, whether the unfurl path succeeds or
\* fails.
C1_QualifyingEventGets200 ==
    (HandlerEnded /\ Qualifying(body)) =>
        resp = [status |-> 200, kind |-> "empty", payload |-> ""]

\* C2: the response of a qualifying event reaches the caller before the
\* dashboard fetch, the render or the chat.unfurl post starts.
C2_RespondsBeforeUnfurlWork ==
    \A i \in CallsOf({"fetch", "render", "post"}) :
        \E j \in 1..(i - 1) : trace[j].op = "respond"

\* C3: a url_verification payload is answered with status 200 and the
\* challenge it carried, and no dashboard fetch, render or Slack request is
\* made for it.
C3_UrlVerificationEchoesChallenge ==
    IsUrlVerification(body) =>
        /\ NoUnfurlWork
        /\ pc # "panicked"
        /\ pc = "done" =>
             resp = [status |-> 200, kind |-> "challenge",
                     payload |-> body.payload.Challenge]

C3_Witness ==
    /\ pc = "done"
    /\ IsUrlVerification(body)
    /\ body.payload.Challenge = "abc123"
    /\ body.payload.Event.Type = "link_shared"
    /\ resp.status = 200
    /\ resp.payload = "abc123"

\* C4: a body that fails to decode, and a payload that is neither a
\* url_verification nor a qualifying link_shared event_callback, is answered
\* with a 400 error and starts no unfurl work.
C4_OtherPayloadsGet400 ==
    (pc # "idle" /\ ~IsUrlVerification(body) /\ ~Qualifying(body)) =>
        /\ NoUnfurlWork
        /\ pc \in {"return", "done"}
        /\ pc = "done" => (resp.status = 400 /\ resp.kind = "error")

C4_Witness ==
    /\ pc = "done"
    /\ body.decodes
    /\ body.payload.Type = "event_callback"
    /\ body.payload.Event.Type = "link_shared"
    /\ body.payload.Event.Source = "composer"
    /\ Len(body.payload.Event.Links) > 0
    /\ resp.status = 400

\* C6: the unfurl steps run in the order extract, fetch, render, post, each
\* only after the one before it succeeded: an empty renderPath leaves out
\* fetch, render and post; a failed fetch leaves out render and post; a
\* failed render leaves out the post.
C6_PipelineStopsAtFirstFailure ==
    /\ \A i \in CallsOf({"extract"}) : i = 1
    /\ \A i \in CallsOf({"fetch"}) :
         i > 1 /\ trace[i - 1].op = "extract" /\ trace[i - 1].ok
    /\ \A i \in CallsOf({"render"}) :
         i > 1 /\ trace[i - 1].op = "fetch" /\ trace[i - 1].ok
    /\ \A i \in CallsOf({"post"}) :
         i > 1 /\ trace[i - 1].op = "render" /\ trace[i - 1].ok
    /\ locals.renderPath = <<>> =>
         (CallsOf({"fetch", "render", "post"}) = {} /\ posted = <<>>)
    /\ \A i \in CallsOf({"fetch"}) :
         ~trace[i].ok => (CallsOf({"render", "post"}) = {} /\ posted = <<>>)
    /\ \A i \in CallsOf({"render"}) :
         ~trace[i].ok => (CallsOf({"post"}) = {} /\ posted = <<>>)
    /\ posted # <<>> => CallsOf({"post"}) # {}

C6_Witness ==
    /\ pc = "done"
    /\ \E i \in CallsOf({"render"}) : ~trace[i].ok
    /\ posted = <<>>

\* C7: for one qualifying event, whatever its number of links, at most one
\* render job is started and at most one chat.unfurl POST is sent, exactly
\* one of each when no step fails, and none is issued again after a failure.
C7_AtMostOneRenderAndPost ==
    Qualifying(body) =>
        /\ Cardinality(CallsOf({"render"})) <= 1
        /\ Cardinality(CallsOf({"post"})) <= 1
        /\ Len(posted) <= 1
        /\ (pc = "done" /\ \A i \in 1..Len(trace) : trace[i].ok) =>
             /\ Cardinality(CallsOf({"render"})) = 1
             /\ Cardinality(CallsOf({"post"})) = 1
             /\ Len(posted) = 1

C7_Witness ==
    /\ pc = "done"
    /\ Len(body.payload.Event.Links) = 2
    /\ Cardinality(CallsOf({"render"})) = 1
    /\ \E i \in CallsOf({"post"}) : ~trace[i].ok
    /\ Len(posted) = 1

\* C8: the posted Unfurls mapping has exactly the URLs of event.links as
\* its keys, and in the entry for URL u the action button's url and value
\* are both u.
C8_UnfurlsKeyedByLinks ==
    \A n \in 1..Len(posted) :
        LET unfurls == posted[n].Unfurls
            links == body.payload.Event.Links
        IN  /\ DOMAIN unfurls = {links[k].URL : k \in 1..Len(links)}
            /\ \A u \in DOMAIN unfurls :
                 LET blocks == unfurls[u].Blocks
                     actions == {j \in 1..Len(blocks) : blocks[j].Type = "actions"}
                 IN  /\ actions # {}
                     /\ \A j \in actions :
                          /\ Len(blocks[j].Elements) = 1
                          /\ blocks[j].Elements[1].Type = "button"
                          /\ blocks[j].Elements[1].URL = u
                          /\ blocks[j].Elements[1].Value = u

C8_Witness ==
    /\ Len(posted) = 1
    /\ DOMAIN posted[1].Unfurls = {uMatchA, uNoMatch}
    /\ body.payload.Event.Links[1].URL = uMatchA

\* the blocks of the given type in an unfurl
BlocksOfType(unfurl, type) ==
    {unfurl.Blocks[j] : j \in {j \in 1..Len(unfurl.Blocks) : unfurl.Blocks[j].Type = type}}

\* C18: of the links of a link_shared event only the first is extracted,
\* looked up and rendered, each at most once, and every entry of the posted
\* Unfurls carries the dashboard title and the image URL got from the first
\* link.
C18_OnlyFirstLinkProcessed ==
    LET links == body.payload.Event.Links
        first == extractURLInfo(links[1].URL)
    IN  /\ \A op \in {"extract", "fetch", "render"} : Cardinality(CallsOf({op})) <= 1
        /\ \A i \in 1..Len(trace) :
             /\ trace[i].op = "extract" => trace[i].arg = links[1].URL
             /\ trace[i].op = "fetch" => trace[i].arg = first[2]
             /\ trace[i].op = "render" => trace[i].arg = first[1]
        /\ \A n \in 1..Len(posted) : \A u \in DOMAIN posted[n].Unfurls :
             /\ \A b \in BlocksOfType(posted[n].Unfurls[u], "header") :
                  b.Text.Text = DashboardTitle(first[2])
             /\ \A b \in BlocksOfType(posted[n].Unfurls[u], "image") :
                  b.ImageURL = getImageURL(cfg, filepathBase(locals.imagePath))

C18_Witness ==
    /\ Len(posted) = 1
    /\ Len(body.payload.Event.Links) = 2
    /\ body.payload.Event.Links[1].URL = uMatchA
    /\ body.payload.Event.Links[2].URL = uMatchB
    /\ \A u \in {uMatchA, uMatchB} :
         \E b \in BlocksOfType(posted[1].Unfurls[u], "header") :
             b.Text.Text = DashboardTitle(<<"a">>)

(***************************************************************************)
(* ShareToSlack.  Its inputs: the :uid path parameter, whether the         *)
(* dashboard service finds that dashboard, whether the body decodes, and   *)
(* the ShareRequest decoded from it.                                       *)
(***************************************************************************)
ChannelLists == UNION {[1..n -> {"C1", "C2"}] : n \in 0..MaxChannels}

ShareRequests ==
    [ChannelIds : ChannelLists,
     Message : {"", "look"},
     ImagePreviewUrl : {"http://img/p.png"},
     DashboardPath : {<<"/", "d", "/", "a">>}]

ShareInputs ==
    [found : BOOLEAN, decodes : {TRUE}, uid : {<<"a">>}, req : ShareRequests]
    \cup [found : BOOLEAN, decodes : {FALSE}, uid : {<<"a">>}, req : {ZeroShareRequest}]

JSON(status, payload) == [status |-> status, kind |-> "json", payload |-> payload]

\* fmt.Sprintf("%s://%s:%s%s", protocol, domain, hs.Cfg.HTTPPort, shareRequest.DashboardPath)
dashboardLinkOf(c, dashboardPath) ==
    schemeOf(c.Protocol) \o <<":", "/", "/">> \o domainOf(c) \o <<":">>
    \o c.HTTPPort \o dashboardPath

\* the four blocks of a shared message
shareBlocks(c, dashboardTitle, shareRequest) ==
    LET dashboardLink == dashboardLinkOf(c, shareRequest.DashboardPath)
    IN  <<[Type |-> "section",
           Text |-> [Type |-> "mrkdwn",
                     Text |-> <<"<">> \o dashboardLink \o <<"|", "*">>
                              \o dashboardTitle \o <<"*", ">">>]],
          [Type |-> "section", Text |-> PlainText(shareRequest.Message)],
          [Type |-> "image", Title |-> PlainText("Dashboard preview"),
           ImageURL |-> shareRequest.ImagePreviewUrl, AltText |-> "dashboard preview"],
          [Type |-> "actions",
           Elements |-> <<[Type |-> "button", Text |-> PlainText("View in Grafana"),
                           Style |-> "primary", Value |-> "View in Grafana",
                           URL |-> dashboardLink]>>]>>

\* a handler that goes on to the loop although the dashboard lookup failed
ShareToSlackIgnoringLookup ==
    /\ shPc = "idle"
    /\ \E in \in ShareInputs :
        /\ shIn' = in
        /\ IF ~in.decodes
           THEN /\ shResp' = Error(400, "error parsing body")
                /\ shPc' = "done"
                /\ shIdx' = 0
           ELSE /\ shResp' = shResp
                /\ shPc' = "loop"
                /\ shIdx' = 1
    /\ UNCHANGED <<cfg, shPosts, eventVars, extractVars, otherVars>>

\* the handler up to the loop: dashboard lookup and web.Bind
ShareToSlack ==
    /\ shPc = "idle"
    /\ \E in \in ShareInputs :
        /\ shIn' = in
        /\ IF ~in.found \/ ~in.decodes
           THEN /\ shResp' = Error(400, "error parsing body")
                /\ shPc' = "done"
                /\ shIdx' = 0
           ELSE /\ shResp' = shResp
                /\ shPc' = "loop"
                /\ shIdx' = 1
    /\ UNCHANGED <<cfg, shPosts, eventVars, extractVars, otherVars>>

\* one round of the loop over shareRequest.ChannelIds.  The errors of
\* http.DefaultClient.Do and io.ReadAll are dropped; after an error of Do the
\* response is nil and reading res.Body panics.
PostToChannel ==
    /\ shPc = "loop"
    /\ shIdx <= Len(shIn.req.ChannelIds)
    /\ \E o \in SlackOutcomes :
        /\ shPosts' = Append(shPosts,
               [request |-> [Channel |-> shIn.req.ChannelIds[shIdx],
                             Blocks |-> shareBlocks(cfg, DashboardTitle(shIn.uid), shIn.req)],
                outcome |-> o])
        /\ IF o = "neterr"
           THEN shPc' = "panicked" /\ shIdx' = shIdx
           ELSE shPc' = shPc /\ shIdx' = shIdx + 1
    /\ UNCHANGED <<cfg, shIn, shResp, eventVars, extractVars, otherVars>>

\* return response.JSON(http.StatusOK, nil) after the loop
ShareReturn ==
    /\ shPc = "loop"
    /\ shIdx > Len(shIn.req.ChannelIds)
    /\ shResp' = JSON(200, "")
    /\ shPc' = "done"
    /\ UNCHANGED <<cfg, shIn, shIdx, shPosts, eventVars, extractVars, otherVars>>

\* the server takes the next share request; nothing of the last one is kept
NextShareRequest ==
    /\ shPc \in {"done", "panicked"}
    /\ shPc' = "idle"
    /\ shIn' = NoShareInput
    /\ shIdx' = 0
    /\ shPosts' = <<>>
    /\ shResp' = NoResponse
    /\ UNCHANGED <<cfg, eventVars, extractVars, otherVars>>

InitShare ==
    /\ cfg \in Configs
    /\ EventIdle
    /\ ExtractIdle
    /\ ShareIdle
    /\ OthersIdle

NextShare ==
    \/ ShareToSlack
    \/ PostToChannel
    \/ ShareReturn
    \/ NextShareRequest

SpecShare == InitShare /\ [][NextShare]_vars

(***************************************************************************)
(* Properties of the share handler (SpecShare).                            *)
(***************************************************************************)
ShareEnded == shPc \in {"done", "panicked"}

\* C9: for a request listing n channels and a dashboard that is found,
\* exactly n chat.postMessage calls are attempted, one per listed channel in
\* list order, all with the same blocks.
C9_OnePostPerChannel ==
    (ShareEnded /\ shIn.found /\ shIn.decodes) =>
        /\ Len(shPosts) = Len(shIn.req.ChannelIds)
        /\ \A i \in 1..Len(shPosts) :
             /\ shPosts[i].request.Channel = shIn.req.ChannelIds[i]
             /\ shPosts[i].request.Blocks = shPosts[1].request.Blocks

\* C10: a failed post for one channel does not abort the loop: the later
\* channels are still attempted and the handler returns 200 with an empty
\* body once all posts have been attempted.
C10_FailedPostDoesNotAbort ==
    (ShareEnded /\ shIn.found /\ shIn.decodes) =>
        /\ \A i \in 1..Len(shPosts) :
             shPosts[i].outcome # "ok" =>
                 \A k \in (i + 1)..Len(shIn.req.ChannelIds) :
                     /\ k <= Len(shPosts)
                     /\ shPosts[k].request.Channel = shIn.req.ChannelIds[k]
        /\ shResp.status = 200
        /\ shResp.payload = ""

\* C11: when the dashboard lookup fails, ShareToSlack returns a 400 error
\* and sends no chat.postMessage request, whatever the request body holds.
C11_LookupFailureGets400 ==
    (shPc # "idle" /\ ~shIn.found) =>
        /\ shPc = "done"
        /\ shResp.status = 400
        /\ shResp.kind = "error"
        /\ shPosts = <<>>

C11_Witness ==
    /\ shPc = "done"
    /\ ~shIn.found
    /\ shIn.decodes
    /\ Len(shIn.req.ChannelIds) = 2
    /\ shResp.status = 400
    /\ shPosts = <<>>

(***************************************************************************)
(* GetSlackChannels.  http.NewRequest is given a constant method and URL   *)
(* and cannot fail; the request to conversations.list can fail in          *)
(* http.DefaultClient.Do, in io.ReadAll and in json.Unmarshal.             *)
(***************************************************************************)
ChannelsError(status, message) ==
    [status |-> status, kind |-> "error", message |-> message, channels |-> <<>>]

SlackChannelLists == {<<>>, <<[id |-> "C1", name |-> "general"]>>}

\* the handler is entered and the request is built
GetSlackChannels ==
    /\ chPc = "idle"
    /\ chPc' = "do"
    /\ UNCHANGED <<cfg, chTrace, chResp, eventVars, extractVars, shareVars,
                   shMemo, pvMemo, previewVars, imageVars, toolbarVars, clientVars>>

\* a failed request that is taken for an empty answer
ChannelsDoIgnoringError ==
    /\ chPc = "do"
    /\ \E ok \in BOOLEAN :
        /\ chTrace' = Append(chTrace, Call("request", ok, <<>>))
        /\ chPc' = "read"
        /\ chResp' = chResp
    /\ UNCHANGED <<cfg, eventVars, extractVars, shareVars,
                   shMemo, pvMemo, previewVars, imageVars, toolbarVars, clientVars>>

\* http.DefaultClient.Do
ChannelsDo ==
    /\ chPc = "do"
    /\ \E ok \in BOOLEAN :
        /\ chTrace' = Append(chTrace, Call("request", ok, <<>>))
        /\ chPc' = IF ok THEN "read" ELSE "done"
        /\ chResp' = IF ok THEN chResp
                     ELSE ChannelsError(500, "error making http request")
    /\ UNCHANGED <<cfg, eventVars, extractVars, shareVars,
                   shMemo, pvMemo, previewVars, imageVars, toolbarVars, clientVars>>

\* io.ReadAll(resp.Body)
ChannelsRead ==
    /\ chPc = "read"
    /\ \E ok \in BOOLEAN :
        /\ chTrace' = Append(chTrace, Call("read", ok, <<>>))
        /\ chPc' = IF ok THEN "decode" ELSE "done"
        /\ chResp' = IF ok THEN chResp
                     ELSE ChannelsError(500, "could not read response body")
    /\ UNCHANGED <<cfg, eventVars, extractVars, shareVars,
                   shMemo, pvMemo, previewVars, imageVars, toolbarVars, clientVars>>

\* json.Unmarshal and response.JSON(http.StatusOK, result.Channels)
ChannelsDecode ==
    /\ chPc = "decode"
    /\ \E ok \in BOOLEAN : \E list \in SlackChannelLists :
        /\ chTrace' = Append(chTrace, Call("decode", ok, <<>>))
        /\ chResp' = IF ok
                     THEN [status |-> 200, kind |-> "json", message |-> "", channels |-> list]
                     ELSE ChannelsError(500, "could not unmarshall response")
    /\ chPc' = "done"
    /\ UNCHANGED <<cfg, eventVars, extractVars, shareVars,
                   shMemo, pvMemo, previewVars, imageVars, toolbarVars, clientVars>>

\* the server takes the next channel-list request
NextChannelsRequest ==
    /\ chPc = "done"
    /\ chPc' = "idle"
    /\ chTrace' = <<>>
    /\ chResp' = NoChannelsResponse
    /\ UNCHANGED <<cfg, eventVars, extractVars, shareVars,
                   shMemo, pvMemo, previewVars, imageVars, toolbarVars, clientVars>>

(***************************************************************************)
(* GeneratePreview.                                                        *)
(***************************************************************************)
PreviewInputs ==
    {NoPreviewInput}
    \cup [decodes : {TRUE}, DashboardURL : {<<"/", "d", "/", "a", "/", "x">>, <<"d", "/", "b">>}]

PreviewError(status, message) ==
    [status |-> status, kind |-> "error", message |-> message, PreviewURL |-> <<>>]

\* a preview URL built from the whole file path
previewResponseOfFullPath(c, filePath) ==
    [status |-> 200, kind |-> "json", message |-> "",
     PreviewURL |-> getImageURL(c, filePath)]

\* response.JSON(http.StatusOK, &PreviewResponse{PreviewURL: imageURL})
previewResponse(c, filePath) ==
    [status |-> 200, kind |-> "json", message |-> "",
     PreviewURL |-> getImageURL(c, filepathBase(filePath))]

\* web.Bind
GeneratePreview ==
    /\ pvPc = "idle"
    /\ \E in \in PreviewInputs :
        /\ pvIn' = in
        /\ pvTrace' = Append(pvTrace, Call("decode", in.decodes, <<>>))
        /\ pvPc' = IF in.decodes THEN "render" ELSE "done"
        /\ pvResp' = IF in.decodes THEN pvResp
                     ELSE PreviewError(400, "error parsing body")
    /\ UNCHANGED <<cfg, eventVars, extractVars, shareVars,
                   shMemo, pvMemo, channelsVars, imageVars, toolbarVars, clientVars>>

\* hs.renderDashboard, filepath.Base, hs.getImageURL and the response
PreviewRender ==
    /\ pvPc = "render"
    /\ \E ok \in BOOLEAN : \E f \in RenderedFiles :
        /\ pvTrace' = Append(pvTrace, Call("render", ok, IF ok THEN f ELSE <<>>))
        /\ pvResp' = IF ok THEN previewResponse(cfg, f)
                     ELSE PreviewError(500, "Rendering failed")
    /\ pvPc' = "done"
    /\ UNCHANGED <<cfg, pvIn, eventVars, extractVars, shareVars,
                   shMemo, pvMemo, channelsVars, imageVars, toolbarVars, clientVars>>

\* the server takes the next preview request
NextPreviewRequest ==
    /\ pvPc = "done"
    /\ pvPc' = "idle"
    /\ pvIn' = NoPreviewInput
    /\ pvTrace' = <<>>
    /\ pvResp' = NoPreviewResponse
    /\ UNCHANGED <<cfg, eventVars, extractVars, shareVars,
                   shMemo, pvMemo, channelsVars, imageVars, toolbarVars, clientVars>>

\* history: a preview that succeeded is remembered, to compare later ones
\* with it
RememberPreview ==
    /\ pvPc = "done"
    /\ pvResp.status = 200
    /\ ~pvMemo.set
    /\ pvMemo' = [set |-> TRUE, filePath |-> pvTrace[Len(pvTrace)].arg,
                  PreviewURL |-> pvResp.PreviewURL]
    /\ UNCHANGED <<cfg, eventVars, extractVars, shareVars, shMemo,
                   channelsVars, previewVars, imageVars, toolbarVars, clientVars>>

(***************************************************************************)
(* The synchronous handlers: channel list, share and preview.  They share  *)
(* no state but the configuration, which they only read; the model takes   *)
(* one request at a time.                                                  *)
(***************************************************************************)
Quiet ==
    /\ pc = "idle"
    /\ shPc = "idle"
    /\ chPc = "idle"
    /\ pvPc = "idle"

InitSync ==
    /\ cfg \in Configs
    /\ EventIdle
    /\ ExtractIdle
    /\ ShareIdle
    /\ OthersIdle

NextSync ==
    \/ Quiet /\ GetSlackChannels
    \/ ChannelsDo
    \/ ChannelsRead
    \/ ChannelsDecode
    \/ NextChannelsRequest
    \/ Quiet /\ ShareToSlack
    \/ PostToChannel
    \/ ShareReturn
    \/ NextShareRequest
    \/ Quiet /\ GeneratePreview
    \/ PreviewRender
    \/ NextPreviewRequest
    \/ RememberPreview

SpecSync == InitSync /\ [][NextSync]_vars

\* a failed call is the last call of its handler, which has ended
FailureEnds(calls, handlerPc) ==
    \A i \in 1..Len(calls) : ~calls[i].ok => (i = Len(calls) /\ handlerPc = "done")

Failed(calls) == \E i \in 1..Len(calls) : ~calls[i].ok

\* C14: in GetSlackChannels, ShareToSlack (its per-channel posts apart) and
\* GeneratePreview the first failing step ends the handler with an HTTP
\* error response; no later step runs and no success body is returned.
C14_FirstFailureEndsHandler ==
    /\ FailureEnds(chTrace, chPc)
    /\ Failed(chTrace) =>
         (chResp.kind = "error" /\ chResp.status >= 400 /\ chResp.channels = <<>>)
    /\ FailureEnds(pvTrace, pvPc)
    /\ Failed(pvTrace) =>
         (pvResp.kind = "error" /\ pvResp.status >= 400 /\ pvResp.PreviewURL = <<>>)
    /\ (shPc # "idle" /\ (~shIn.found \/ ~shIn.decodes)) =>
         /\ shPc = "done"
         /\ shResp.kind = "error"
         /\ shResp.status >= 400
         /\ shPosts = <<>>

C14_Witness ==
    /\ chPc = "done"
    /\ Len(chTrace) = 2
    /\ chTrace[1].ok
    /\ chTrace[2].op = "read"
    /\ ~chTrace[2].ok
    /\ chResp.status = 500

\* the part of a path after its last slash
AfterLastSlash(path) ==
    LET slashes == {j \in 1..Len(path) : path[j] = "/"}
    IN  IF slashes = {} THEN path ELSE SubSeq(path, Max(slashes) + 1, Len(path))

EndsWith(s, suffix) ==
    /\ Len(suffix) <= Len(s)
    /\ SubSeq(s, Len(s) - Len(suffix) + 1, Len(s)) = suffix

\* the file of the successful render of the preview request at hand
RenderedPath == pvTrace[Len(pvTrace)].arg

PreviewSucceeded ==
    /\ pvPc = "done"
    /\ pvTrace # <<>>
    /\ pvTrace[Len(pvTrace)].op = "render"
    /\ pvTrace[Len(pvTrace)].ok

\* C15: when the render succeeds with file path p, GeneratePreview returns
\* 200 with a previewUrl ending in "public/img/attachments/" and the base
\* name of p, and two previews with the same configuration and the same
\* rendered base name get the same previewUrl.
C15_PreviewURLOfBaseName ==
    PreviewSucceeded =>
        /\ pvResp.status = 200
        /\ EndsWith(pvResp.PreviewURL,
                    sAttachments \o <<"/">> \o AfterLastSlash(RenderedPath))
        /\ (pvMemo.set /\ AfterLastSlash(pvMemo.filePath) = AfterLastSlash(RenderedPath)) =>
             pvResp.PreviewURL = pvMemo.PreviewURL

C15_Witness ==
    /\ PreviewSucceeded
    /\ pvMemo.set
    /\ pvMemo.filePath # RenderedPath
    /\ AfterLastSlash(pvMemo.filePath) = AfterLastSlash(RenderedPath)
    /\ pvResp.PreviewURL = pvMemo.PreviewURL

(***************************************************************************)
(* The whole server: the event endpoint and the synchronous handlers, one  *)
(* request at a time, any number of requests in any order.  shMemo         *)
(* remembers one ended share call, to compare a later one with.            *)
(***************************************************************************)
postRequests(posts) == [i \in 1..Len(posts) |-> posts[i].request]

RememberShare ==
    /\ shPc \in {"done", "panicked"}
    /\ ~shMemo.set
    /\ shMemo' = [set |-> TRUE, in |-> shIn, requests |-> postRequests(shPosts)]
    /\ UNCHANGED <<cfg, eventVars, extractVars, shareVars, pvMemo,
                   channelsVars, previewVars, imageVars, toolbarVars, clientVars>>

InitServer ==
    /\ cfg \in {c \in Configs : c.Protocol \in {sHttp, sH2}}
    /\ EventIdle
    /\ ExtractIdle
    /\ ShareIdle
    /\ OthersIdle

NextServer ==
    \/ Quiet /\ AcknowledgeSlackEvent
    \/ AckReturn
    \/ HlsExtract
    \/ HlsGetDashboard
    \/ HlsRenderDashboard
    \/ SendUnfurlEvent
    \/ NextEventRequest
    \/ Quiet /\ GetSlackChannels
    \/ ChannelsDo
    \/ ChannelsRead
    \/ ChannelsDecode
    \/ NextChannelsRequest
    \/ Quiet /\ ShareToSlack
    \/ PostToChannel
    \/ ShareReturn
    \/ NextShareRequest
    \/ RememberShare
    \/ Quiet /\ GeneratePreview
    \/ PreviewRender
    \/ NextPreviewRequest

SpecServer == InitServer /\ [][NextServer]_vars

\* C12: ShareToSlack keeps no state between calls: a share request repeated
\* with the same body, dashboard and configuration, after any other
\* requests, produces the same sequence of postMessage payloads as the
\* first time.
C12_RepeatedSharePostsTheSame ==
    (ShareEnded /\ shMemo.set /\ shMemo.in = shIn) =>
        postRequests(shPosts) = shMemo.requests

\* the calls of a Slack operation that failed for the given cause
ChannelsFailed(op) == \E i \in 1..Len(chTrace) : chTrace[i].op = op /\ ~chTrace[i].ok
ShareFailed(cause) == \E i \in 1..Len(shPosts) : shPosts[i].outcome = cause

\* C13: each of the three Slack client operations surfaces an error to its
\* caller, distinct per cause, when the network call fails and when reading
\* the response body fails.
C13_SlackErrorsSurface ==
    /\ ChannelsFailed("request") =>
         (chResp.kind = "error" /\ chResp.message = "error making http request")
    /\ ChannelsFailed("read") =>
         (chResp.kind = "error" /\ chResp.message = "could not read response body")
    /\ locals.slack = "neterr" => locals.err = "client: error making http request"
    /\ locals.slack = "readerr" => locals.err = "client: could not read response body"
    /\ (ShareEnded /\ ShareFailed("neterr")) => shResp.kind = "error"
    /\ (ShareEnded /\ ShareFailed("readerr")) => shResp.kind = "error"

(***************************************************************************)
(* The dashboard toolbar (ToolbarActions) of an already saved dashboard,   *)
(* as NavToolbarActions.test.tsx renders and clicks it.  playlistSrv is    *)
(* the mock of the test file: its prev, next and stop only count calls.    *)
(***************************************************************************)
PlaylistControls == {"prev", "stop", "next"}

\* a toolbar that keeps the Edit button while editing
toolbarButtonsKeepingEdit(editing, view, playing) ==
    IF view = "unmounted" THEN {}
    ELSE IF ~editing
         THEN {"Edit", "Share"} \cup (IF playing THEN PlaylistControls ELSE {})
    ELSE IF view = "settings"
         THEN {"Edit", "Save dashboard", "Back to dashboard"}
    ELSE {"Save dashboard", "Exit edit", "Add visualization", "Settings"}

\* the buttons and controls in the document
toolbarButtons(editing, view, playing) ==
    IF view = "unmounted" THEN {}
    ELSE IF ~editing
         THEN {"Edit", "Share"} \cup (IF playing THEN PlaylistControls ELSE {})
    ELSE IF view = "settings"
         THEN {"Save dashboard", "Back to dashboard"}
    ELSE {"Save dashboard", "Exit edit", "Add visualization", "Settings"}

Shown == toolbarButtons(tbEditing, tbView, tbPlaying)

otherThanToolbar ==
    <<cfg, eventVars, extractVars, shareVars, shMemo, pvMemo,
      channelsVars, previewVars, imageVars, clientVars>>

\* setup(): the dashboard is rendered anew, not editing; the calls counted
\* by the mock are kept
setup ==
    /\ \E isPlaying \in BOOLEAN : tbPlaying' = isPlaying
    /\ tbEditing' = FALSE
    /\ tbView' = "dashboard"
    /\ tbLast' = "setup"
    /\ UNCHANGED <<tbCalls, tbClicks, otherThanToolbar>>

ClickEdit ==
    /\ "Edit" \in Shown
    /\ tbEditing' = TRUE
    /\ tbLast' = "Edit"
    /\ UNCHANGED <<tbView, tbPlaying, tbCalls, tbClicks, otherThanToolbar>>

ClickSettings ==
    /\ "Settings" \in Shown
    /\ tbView' = "settings"
    /\ tbLast' = "Settings"
    /\ UNCHANGED <<tbEditing, tbPlaying, tbCalls, tbClicks, otherThanToolbar>>

ClickPrev ==
    /\ "prev" \in Shown
    /\ tbClicks.prev < MaxClicks
    /\ tbClicks' = [tbClicks EXCEPT !.prev = @ + 1]
    /\ tbCalls' = [tbCalls EXCEPT !.prev = @ + 1]
    /\ tbLast' = "prev"
    /\ UNCHANGED <<tbEditing, tbView, tbPlaying, otherThanToolbar>>

ClickNext ==
    /\ "next" \in Shown
    /\ tbClicks.next < MaxClicks
    /\ tbClicks' = [tbClicks EXCEPT !.next = @ + 1]
    /\ tbCalls' = [tbCalls EXCEPT !.next = @ + 1]
    /\ tbLast' = "next"
    /\ UNCHANGED <<tbEditing, tbView, tbPlaying, otherThanToolbar>>

\* a stop control that stays in the document
ClickStopKeepsControls ==
    /\ "stop" \in Shown
    /\ tbClicks.stop < MaxClicks
    /\ tbClicks' = [tbClicks EXCEPT !.stop = @ + 1]
    /\ tbCalls' = [tbCalls EXCEPT !.stop = @ + 1]
    /\ tbLast' = "stop"
    /\ UNCHANGED <<tbEditing, tbView, tbPlaying, otherThanToolbar>>

ClickStop ==
    /\ "stop" \in Shown
    /\ tbClicks.stop < MaxClicks
    /\ tbClicks' = [tbClicks EXCEPT !.stop = @ + 1]
    /\ tbCalls' = [tbCalls EXCEPT !.stop = @ + 1]
    /\ tbPlaying' = FALSE
    /\ tbLast' = "stop"
    /\ UNCHANGED <<tbEditing, tbView, otherThanToolbar>>

InitToolbar ==
    /\ cfg = DefaultCfg
    /\ EventIdle
    /\ ExtractIdle
    /\ ShareIdle
    /\ OthersIdle

NextToolbar ==
    \/ setup
    \/ ClickEdit
    \/ ClickSettings
    \/ ClickPrev
    \/ ClickNext
    \/ ClickStop

SpecToolbar == InitToolbar /\ [][NextToolbar]_vars

\* C16: while the playlist is playing and the dashboard is not being edited
\* the prev, next and stop controls are shown; each click on one of them
\* calls the playlist service method of the same name once and no other;
\* after a click on stop the stop control is no longer shown.
C16_PlaylistControls ==
    /\ (tbView # "unmounted" /\ tbPlaying /\ ~tbEditing) => PlaylistControls \subseteq Shown
    /\ tbCalls = tbClicks
    /\ tbLast = "stop" => "stop" \notin Shown

C16_Witness ==
    /\ tbLast = "stop"
    /\ tbCalls = [prev |-> 1, next |-> 1, stop |-> 1]
    /\ "stop" \notin Shown

\* C17: not editing, Edit and Share are shown and Save dashboard and Add
\* visualization are not; after a click on Edit, Save dashboard, Exit edit
\* and Add visualization are shown and Edit and Share are not; after a click
\* on Settings then, Save dashboard and Back to dashboard are shown; Edit
\* and Save dashboard are never shown together.
C17_ButtonsByMode ==
    /\ (tbView # "unmounted" /\ ~tbEditing) =>
         /\ {"Edit", "Share"} \subseteq Shown
         /\ Shown \cap {"Save dashboard", "Add visualization"} = {}
    /\ tbLast = "Edit" =>
         /\ {"Save dashboard", "Exit edit", "Add visualization"} \subseteq Shown
         /\ Shown \cap {"Edit", "Share"} = {}
    /\ tbLast = "Settings" => {"Save dashboard", "Back to dashboard"} \subseteq Shown
    /\ ~({"Edit", "Save dashboard"} \subseteq Shown)

C17_Witness ==
    /\ tbLast = "Settings"
    /\ tbEditing
    /\ "Back to dashboard" \in Shown

(***************************************************************************)
(* getImageURL on its own, over more configurations than the handlers are  *)
(* run with: an empty address, an address that is "localhost" already, an  *)
(* empty sub-URL.                                                          *)
(***************************************************************************)
ImageConfigs ==
    [Protocol : {sHttp, sHttps, sH2, sSocket},
     HTTPAddr : {sAnyAddr, sLocalhost, <<"g", "r">>, <<>>},
     HTTPPort : {<<"8", "0">>, <<"3">>},
     ServeFromSubPath : BOOLEAN,
     AppSubURL : {<<"/", "g">>, <<>>},
     RendererCallbackUrl : {<<>>, <<"c", "b", "/">>},
     SlackToken : {<<"t">>}]

ImageNames == {<<"i", ".", "p", "n", "g">>, <<"j">>, <<>>}

InitImage ==
    /\ cfg = DefaultCfg
    /\ EventIdle
    /\ ExtractIdle
    /\ ShareIdle
    /\ shMemo = NoShareMemo
    /\ pvMemo = NoPreviewMemo
    /\ ChannelsIdle
    /\ PreviewIdle
    /\ ToolbarIdle
    /\ ClientIdle
    /\ imCfg \in ImageConfigs
    /\ imName \in ImageNames
    /\ imOut = NoImageURL

CallGetImageURL ==
    /\ ~imOut.called
    /\ imOut' = [called |-> TRUE, url |-> getImageURL(imCfg, imName)]
    /\ UNCHANGED <<cfg, eventVars, extractVars, shareVars, shMemo, pvMemo,
                   channelsVars, previewVars, toolbarVars, clientVars, imCfg, imName>>

NextImage == CallGetImageURL

SpecImage == InitImage /\ [][NextImage]_vars

SegmentStarts(u) == {p \in 1..Len(u) : \E q \in 1..Len(u) : SegmentAt(u, p, q)}

\* C20: a non-empty renderPath returned by extractURLInfo for a URL string
\* is a suffix of the URL and starts with "/d/", the returned uid and "/";
\* the uid holds no "/"; among several /d/<x>/ segments of the URL the
\* renderPath and uid are those of the last one.
C20_RenderPathOfLastSegment ==
    (exOut.called /\ IsURLString(exUrl) /\ exOut.renderPath # <<>>) =>
        LET head == <<"/", "d", "/">> \o exOut.uid \o <<"/">>
        IN  /\ EndsWith(exUrl, exOut.renderPath)
            /\ Len(head) <= Len(exOut.renderPath)
            /\ SubSeq(exOut.renderPath, 1, Len(head)) = head
            /\ \A j \in 1..Len(exOut.uid) : exOut.uid[j] # "/"
            /\ SegmentStarts(exUrl) # {}
            /\ exOut.renderPath = SubSeq(exUrl, Max(SegmentStarts(exUrl)), Len(exUrl))

C20_Witness ==
    /\ exOut.called
    /\ exUrl = <<"/", "d", "/", "d", "/", "a", "/">>
    /\ Cardinality(SegmentStarts(exUrl)) = 2
    /\ exOut.renderPath = <<"/", "d", "/", "a", "/">>
    /\ exOut.uid = <<"a">>

(***************************************************************************)
(* RichHistoryRemoteStorage.ts: the query history client of the browser.   *)
(* buildQueryParams builds the query string of GET /api/query-history,     *)
(* character by character.                                                 *)
(***************************************************************************)
\* the server side is idle
ServerIdle ==
    /\ cfg = DefaultCfg
    /\ EventIdle
    /\ ExtractIdle
    /\ ShareIdle
    /\ shMemo = NoShareMemo
    /\ pvMemo = NoPreviewMemo
    /\ ChannelsIdle
    /\ PreviewIdle
    /\ ImageIdle
    /\ ToolbarIdle

Digits == <<"0", "1", "2", "3", "4", "5", "6", "7", "8", "9">>

\* a number in a template literal
RECURSIVE numberToString(_)
numberToString(n) ==
    IF n < 10 THEN <<Digits[n + 1]>>
    ELSE numberToString(n \div 10) \o <<Digits[(n % 10) + 1]>>

\* encodeURIComponent, on the characters that occur
encodeChar(c) ==
    IF c = "&" THEN <<"%", "2", "6">>
    ELSE IF c = "=" THEN <<"%", "3", "D">>
    ELSE IF c = "/" THEN <<"%", "2", "F">>
    ELSE <<c>>

RECURSIVE encodeURIComponent(_)
encodeURIComponent(s) ==
    IF s = <<>> THEN <<>>
    ELSE encodeChar(s[1]) \o encodeURIComponent(SubSeq(s, 2, Len(s)))

\* getDataSourceSrv().getInstanceSettings(datasourceName)!.uid
DatasourceNames == {"A", "B"}
uidOf(datasourceName) == IF datasourceName = "A" THEN <<"u", "1">> ELSE <<"u", "/", "2">>

sNow == <<"n", "o", "w">>

\* filters.datasourceFilters.map(...).join('&'), for the names from index k on
RECURSIVE joinDatasourceUids(_, _)
joinDatasourceUids(names, k) ==
    IF k > Len(names) THEN <<>>
    ELSE <<"d", "a", "t", "a", "s", "o", "u", "r", "c", "e", "U", "i", "d", "=">>
         \o encodeURIComponent(uidOf(names[k]))
         \o (IF k < Len(names) THEN <<"&">> ELSE <<>>)
         \o joinDatasourceUids(names, k + 1)

\* filters.from === 0 ? 'now' : now-<from>d
relative(days) ==
    IF days = 0 THEN sNow ELSE sNow \o <<"-">> \o numberToString(days) \o <<"d">>

\* filters.page || 1
pageOf(filters) ==
    IF filters.page = <<>> \/ filters.page[1] = 0 THEN 1 ELSE filters.page[1]

buildQueryParams(filters) ==
    joinDatasourceUids(filters.datasourceFilters, 1)
    \o (IF filters.search # <<>>
        THEN <<"&", "s", "e", "a", "r", "c", "h", "S", "t", "r", "i", "n", "g", "=">>
             \o filters.search
        ELSE <<>>)
    \o (IF filters.sortOrder # ""
        THEN <<"&", "s", "o", "r", "t", "=">>
             \o (IF filters.sortOrder = "asc"
                 THEN <<"t", "i", "m", "e", "-", "a", "s", "c">>
                 ELSE <<"t", "i", "m", "e", "-", "d", "e", "s", "c">>)
        ELSE <<>>)
    \o (IF ~filters.starred
        THEN <<"&", "t", "o", "=">> \o relative(filters.from)
             \o <<"&", "f", "r", "o", "m", "=">> \o relative(filters.to)
        ELSE <<>>)
    \o <<"&", "l", "i", "m", "i", "t", "=", "1", "0", "0">>
    \o <<"&", "p", "a", "g", "e", "=">> \o numberToString(pageOf(filters))
    \o (IF filters.starred
        THEN <<"&", "o", "n", "l", "y", "S", "t", "a", "r", "r", "e", "d", "=", "t", "r", "u", "e">>
        ELSE <<>>)

\* RichHistorySearchFilters.  page is <<>> when absent; sortOrder is "" when
\* absent, else SortOrder.Ascending ("asc") or another order; the search
\* text is what the user typed.
MaxDatasources == 2
DatasourceFilters == UNION {[1..n -> DatasourceNames] : n \in 0..MaxDatasources}
SearchTexts == {<<>>, <<"q">>, <<"a", "&", "t", "o", "=", "n", "o", "w">>}
SortOrders == {"", "asc", "desc"}
RangeDays == {0, 2, 14}
Pages == {<<>>, <<0>>, <<1>>, <<12>>}

Filters ==
    [datasourceFilters : DatasourceFilters, search : SearchTexts, sortOrder : SortOrders,
     starred : BOOLEAN, from : RangeDays, to : RangeDays, page : Pages]

InitParams ==
    /\ ServerIdle
    /\ HistoryIdle
    /\ SettingsIdle
    /\ bqFilters \in Filters
    /\ bqOut = NoQueryParams

CallBuildQueryParams ==
    /\ ~bqOut.called
    /\ bqOut' = [called |-> TRUE, params |-> buildQueryParams(bqFilters)]
    /\ UNCHANGED <<cfg, eventVars, extractVars, shareVars, shMemo, pvMemo, channelsVars,
                   previewVars, imageVars, toolbarVars, bqFilters, historyVars, settingsVars>>

NextParams == CallBuildQueryParams

SpecParams == InitParams /\ [][NextParams]_vars

\* the pieces of s between the occurrences of the character c
RECURSIVE Split(_, _)
Split(s, c) ==
    LET at == {j \in 1..Len(s) : s[j] = c}
    IN  IF at = {} THEN <<s>>
        ELSE <<SubSeq(s, 1, Min(at) - 1)>> \o Split(SubSeq(s, Min(at) + 1, Len(s)), c)

\* the values that the query string q gives to the parameter key
ValuesOf(q, key) ==
    LET pieces == Split(q, "&")
        head == key \o <<"=">>
    IN  {SubSeq(pieces[j], Len(head) + 1, Len(pieces[j])) :
            j \in {j \in 1..Len(pieces) :
                     Len(pieces[j]) >= Len(head) /\ SubSeq(pieces[j], 1, Len(head)) = head}}

kTo == <<"t", "o">>
kFrom == <<"f", "r", "o", "m">>
kLimit == <<"l", "i", "m", "i", "t">>
kPage == <<"p", "a", "g", "e">>
kOnlyStarred == <<"o", "n", "l", "y", "S", "t", "a", "r", "r", "e", "d">>

\* C22: for non-starred filters the parameter to carries filters.from and
\* the parameter from carries filters.to, each as now for 0 and now-<n>d
\* otherwise; for starred filters neither from nor to is sent and
\* onlyStarred=true is; every query string carries limit=100 and a page that
\* is filters.page, or 1 when filters.page is absent or 0.
C22_QueryParams ==
    bqOut.called =>
        LET q == bqOut.params
            days(n) == IF n = 0 THEN sNow ELSE sNow \o <<"-">> \o numberToString(n) \o <<"d">>
            page == IF bqFilters.page \in {<<>>, <<0>>} THEN 1 ELSE bqFilters.page[1]
        IN  /\ IF bqFilters.starred
               THEN /\ ValuesOf(q, kFrom) = {}
                    /\ ValuesOf(q, kTo) = {}
                    /\ ValuesOf(q, kOnlyStarred) = {<<"t", "r", "u", "e">>}
               ELSE /\ days(bqFilters.from) \in ValuesOf(q, kTo)
                    /\ days(bqFilters.to) \in ValuesOf(q, kFrom)
            /\ <<"1", "0", "0">> \in ValuesOf(q, kLimit)
            /\ numberToString(page) \in ValuesOf(q, kPage)

(***************************************************************************)
(* getRichHistory and deleteRichHistory.  The backend holds the entries    *)
(* and answers each request at some later time, or fails.  A fetch with a  *)
(* requestId cancels the fetch in flight with the same requestId (the      *)
(* comment in getRichHistory).                                             *)
(***************************************************************************)
\* calls of getRichHistory and deleteRichHistory in one run
MaxHistoryCalls == 4

EntryIds == {"e1", "e2"}
StarredEntryIds == {"e1"}

\* the filters getRichHistory is called with
HistoryFilters ==
    {f \in Filters : /\ f.datasourceFilters = <<>>
                     /\ f.search = <<>>
                     /\ f.sortOrder = "desc"
                     /\ f.from = 0
                     /\ f.to = 14
                     /\ f.page = <<>>}

\* one request id for every call
requestIdOfAnyFilters(filters) == "query-history-get-all"

requestIdOf(filters) ==
    IF filters.starred THEN "query-history-get-starred" ELSE "query-history-get-all"

\* the fetches after a new fetch, number n, was issued with requestId
cancelPrevious(calls, requestId, n) ==
    [i \in 1..Len(calls) |->
        IF calls[i].state = "inflight" /\ calls[i].requestId = requestId
        THEN [calls[i] EXCEPT !.state = "cancelled", !.cancelledBy = n]
        ELSE calls[i]]

GetRichHistory ==
    /\ Len(rhCalls) + Len(rhDeletes) < MaxHistoryCalls
    /\ \E filters \in HistoryFilters :
        LET requestId == requestIdOf(filters)
            n == Len(rhCalls) + 1
        IN  rhCalls' = Append(cancelPrevious(rhCalls, requestId, n),
                [starred |-> filters.starred,
                 url |-> <<"/", "a", "p", "i", "/", "q", "u", "e", "r", "y", "-",
                           "h", "i", "s", "t", "o", "r", "y", "?">>
                         \o buildQueryParams(filters),
                 requestId |-> requestId,
                 state |-> "inflight",
                 cancelledBy |-> 0,
                 deleted |-> {rhDeletes[k].id : k \in 1..Len(rhDeletes)},
                 richHistory |-> {}])
    /\ UNCHANGED <<cfg, eventVars, extractVars, shareVars, shMemo, pvMemo, channelsVars,
                   previewVars, imageVars, toolbarVars, paramsVars, settingsVars,
                   rhStore, rhDeletes>>

\* the backend answers a fetch with the entries it holds at that time
FetchRespond ==
    /\ \E i \in 1..Len(rhCalls) :
        /\ rhCalls[i].state = "inflight"
        /\ rhCalls' = [rhCalls EXCEPT ![i].state = "resolved",
                          ![i].richHistory = IF rhCalls[i].starred
                                             THEN rhStore \cap StarredEntryIds
                                             ELSE rhStore]
    /\ UNCHANGED <<cfg, eventVars, extractVars, shareVars, shMemo, pvMemo, channelsVars,
                   previewVars, imageVars, toolbarVars, paramsVars, settingsVars,
                   rhStore, rhDeletes>>

FetchFail ==
    /\ \E i \in 1..Len(rhCalls) :
        /\ rhCalls[i].state = "inflight"
        /\ rhCalls' = [rhCalls EXCEPT ![i].state = "rejected"]
    /\ UNCHANGED <<cfg, eventVars, extractVars, shareVars, shMemo, pvMemo, channelsVars,
                   previewVars, imageVars, toolbarVars, paramsVars, settingsVars,
                   rhStore, rhDeletes>>

\* a deleteRichHistory whose promise waits for the backend
DeleteRichHistoryAwaiting ==
    /\ Len(rhCalls) + Len(rhDeletes) < MaxHistoryCalls
    /\ \E id \in EntryIds :
        rhDeletes' = Append(rhDeletes,
            [id |-> id,
             promise |-> "pending",
             requests |-> <<[method |-> "DELETE", url |-> "/api/query-history/" \o id,
                             state |-> "inflight"]>>])
    /\ UNCHANGED <<cfg, eventVars, extractVars, shareVars, shMemo, pvMemo, channelsVars,
                   previewVars, imageVars, toolbarVars, paramsVars, settingsVars,
                   rhStore, rhCalls>>

\* deleteRichHistory: the request is issued and not awaited, so the promise
\* of the async function is resolved when the call returns
DeleteRichHistory ==
    /\ Len(rhCalls) + Len(rhDeletes) < MaxHistoryCalls
    /\ \E id \in EntryIds :
        rhDeletes' = Append(rhDeletes,
            [id |-> id,
             promise |-> "resolved",
             requests |-> <<[method |-> "DELETE", url |-> "/api/query-history/" \o id,
                             state |-> "inflight"]>>])
    /\ UNCHANGED <<cfg, eventVars, extractVars, shareVars, shMemo, pvMemo, channelsVars,
                   previewVars, imageVars, toolbarVars, paramsVars, settingsVars,
                   rhStore, rhCalls>>

\* the backend deletes the entry
DeleteDone ==
    /\ \E k \in 1..Len(rhDeletes) :
        /\ rhDeletes[k].requests[1].state = "inflight"
        /\ rhDeletes' = [rhDeletes EXCEPT ![k].requests[1].state = "done"]
        /\ rhStore' = rhStore \ {rhDeletes[k].id}
    /\ UNCHANGED <<cfg, eventVars, extractVars, shareVars, shMemo, pvMemo, channelsVars,
                   previewVars, imageVars, toolbarVars, paramsVars, settingsVars, rhCalls>>

\* the DELETE fails; the rejection of its promise has no handler
DeleteFail ==
    /\ \E k \in 1..Len(rhDeletes) :
        /\ rhDeletes[k].requests[1].state = "inflight"
        /\ rhDeletes' = [rhDeletes EXCEPT ![k].requests[1].state = "failed"]
    /\ UNCHANGED <<cfg, eventVars, extractVars, shareVars, shMemo, pvMemo, channelsVars,
                   previewVars, imageVars, toolbarVars, paramsVars, settingsVars,
                   rhStore, rhCalls>>

InitHistory ==
    /\ ServerIdle
    /\ ParamsIdle
    /\ SettingsIdle
    /\ rhStore = EntryIds
    /\ rhCalls = <<>>
    /\ rhDeletes = <<>>

NextHistory ==
    \/ GetRichHistory
    \/ FetchRespond
    \/ FetchFail
    \/ DeleteRichHistory
    \/ DeleteDone
    \/ DeleteFail

SpecHistory == InitHistory /\ [][NextHistory]_vars

\* C21: a getRichHistory fetch carries the request id
\* query-history-get-starred when filters.starred is set and
\* query-history-get-all otherwise; a fetch still in flight is cancelled
\* when a later call with the same starred flag is issued, and a starred and
\* a non-starred fetch never cancel each other.
C21_RequestIdByStarred ==
    \A i \in 1..Len(rhCalls) :
        /\ rhCalls[i].requestId =
             (IF rhCalls[i].starred THEN "query-history-get-starred"
              ELSE "query-history-get-all")
        /\ \A j \in (i + 1)..Len(rhCalls) :
             rhCalls[j].starred = rhCalls[i].starred =>
                 rhCalls[i].state # "inflight"
        /\ rhCalls[i].state = "cancelled" =>
             /\ rhCalls[i].cancelledBy \in (i + 1)..Len(rhCalls)
             /\ rhCalls[rhCalls[i].cancelledBy].starred = rhCalls[i].starred

C21_Witness ==
    /\ Len(rhCalls) = 3
    /\ ~rhCalls[1].starred /\ rhCalls[1].state = "cancelled"
    /\ rhCalls[2].starred /\ rhCalls[2].state = "inflight"
    /\ ~rhCalls[3].starred /\ rhCalls[3].state = "inflight"
    /\ rhCalls[1].cancelledBy = 3

\* C24: deleteRichHistory(id) issues exactly one DELETE for
\* /api/query-history/<id> and its promise is resolved without waiting for
\* it: resolved while the DELETE is in flight, and resolved, not rejected,
\* when the DELETE fails.
C24_DeleteNotAwaited ==
    \A k \in 1..Len(rhDeletes) :
        /\ Len(rhDeletes[k].requests) = 1
        /\ rhDeletes[k].requests[1].method = "DELETE"
        /\ rhDeletes[k].requests[1].url = "/api/query-history/" \o rhDeletes[k].id
        /\ rhDeletes[k].promise = "resolved"

\* a getRichHistory started after deleteRichHistory("e2") resolved returns
\* e2; another delete has failed with its promise resolved
C24_Witness ==
    /\ \E i \in 1..Len(rhCalls) :
        /\ rhCalls[i].state = "resolved"
        /\ "e2" \in rhCalls[i].deleted
        /\ "e2" \in rhCalls[i].richHistory
    /\ \E k \in 1..Len(rhDeletes) :
        /\ rhDeletes[k].requests[1].state = "failed"
        /\ rhDeletes[k].promise = "resolved"

(***************************************************************************)
(* getSettings and updateSettings.  The preferences service patches and    *)
(* loads the user preferences the backend holds; of these only the home    *)
(* tab of the query history is read here.                                  *)
(***************************************************************************)
SettingsInputs ==
    [activeDatasourceOnly : BOOLEAN, lastUsedDatasourceFilters : {"undefined", "A"},
     retentionPeriod : {7, 14}, starredTabAsFirstTab : BOOLEAN]

\* a client that always stores the query tab
homeTabOfQueryTab(settings) == "query"

\* homeTab: settings.starredTabAsFirstTab ? 'starred' : 'query'
homeTabOf(settings) == IF settings.starredTabAsFirstTab THEN "starred" ELSE "query"

\* the RichHistorySettings that getSettings builds from the preferences
settingsOf(homeTab) ==
    [activeDatasourceOnly |-> FALSE, lastUsedDatasourceFilters |-> "undefined",
     retentionPeriod |-> 14, starredTabAsFirstTab |-> (homeTab = "starred")]

\* updateSettings(settings): the patch is sent; the getSettings at hand was
\* not called after this update
UpdateSettings ==
    /\ stUpdate.state # "inflight"
    /\ \E settings \in SettingsInputs :
        stUpdate' = [state |-> "inflight", settings |-> settings,
                     homeTab |-> homeTabOf(settings)]
    /\ stGet' = [stGet EXCEPT !.after = FALSE]
    /\ UNCHANGED <<cfg, eventVars, extractVars, shareVars, shMemo, pvMemo, channelsVars,
                   previewVars, imageVars, toolbarVars, paramsVars, historyVars, stPrefs>>

\* the backend stores the patch and the promise of updateSettings resolves
PatchDone ==
    /\ stUpdate.state = "inflight"
    /\ stUpdate' = [stUpdate EXCEPT !.state = "resolved"]
    /\ stPrefs' = stUpdate.homeTab
    /\ UNCHANGED <<cfg, eventVars, extractVars, shareVars, shMemo, pvMemo, channelsVars,
                   previewVars, imageVars, toolbarVars, paramsVars, historyVars, stGet>>

\* the patch fails, before or after the backend stored it
PatchFail ==
    /\ stUpdate.state = "inflight"
    /\ stUpdate' = [stUpdate EXCEPT !.state = "rejected"]
    /\ \E stored \in BOOLEAN : stPrefs' = IF stored THEN stUpdate.homeTab ELSE stPrefs
    /\ UNCHANGED <<cfg, eventVars, extractVars, shareVars, shMemo, pvMemo, channelsVars,
                   previewVars, imageVars, toolbarVars, paramsVars, historyVars, stGet>>

\* getSettings(): this.preferenceService.load() is awaited
GetSettings ==
    /\ stGet.state # "loading"
    /\ stGet' = [state |-> "loading", after |-> (stUpdate.state = "resolved"),
                 out |-> NoSettings]
    /\ UNCHANGED <<cfg, eventVars, extractVars, shareVars, shMemo, pvMemo, channelsVars,
                   previewVars, imageVars, toolbarVars, paramsVars, historyVars,
                   stPrefs, stUpdate>>

LoadDone ==
    /\ stGet.state = "loading"
    /\ stGet' = [stGet EXCEPT !.state = "resolved", !.out = settingsOf(stPrefs)]
    /\ UNCHANGED <<cfg, eventVars, extractVars, shareVars, shMemo, pvMemo, channelsVars,
                   previewVars, imageVars, toolbarVars, paramsVars, historyVars,
                   stPrefs, stUpdate>>

LoadFail ==
    /\ stGet.state = "loading"
    /\ stGet' = [stGet EXCEPT !.state = "rejected"]
    /\ UNCHANGED <<cfg, eventVars, extractVars, shareVars, shMemo, pvMemo, channelsVars,
                   previewVars, imageVars, toolbarVars, paramsVars, historyVars,
                   stPrefs, stUpdate>>

InitSettings ==
    /\ ServerIdle
    /\ ParamsIdle
    /\ HistoryIdle
    /\ stPrefs \in {"unset", "starred", "query"}
    /\ stUpdate = NoUpdate
    /\ stGet = NoGet

NextSettings ==
    \/ UpdateSettings
    \/ PatchDone
    \/ PatchFail
    \/ GetSettings
    \/ LoadDone
    \/ LoadFail

SpecSettings == InitSettings /\ [][NextSettings]_vars

\* C23: a getSettings() called after updateSettings(s) completed returns
\* starredTabAsFirstTab equal to that of s, stored as home tab starred or
\* query; the other fields returned are fixed whatever s held:
\* activeDatasourceOnly false, lastUsedDatasourceFilters undefined,
\* retentionPeriod 14.
C23_SettingsRoundTrip ==
    stGet.state = "resolved" =>
        /\ stGet.after =>
             /\ stGet.out.starredTabAsFirstTab = stUpdate.settings.starredTabAsFirstTab
             /\ stPrefs = (IF stUpdate.settings.starredTabAsFirstTab THEN "starred" ELSE "query")
        /\ stGet.out.activeDatasourceOnly = FALSE
        /\ stGet.out.lastUsedDatasourceFilters = "undefined"
        /\ stGet.out.retentionPeriod = 14

C23_Witness ==
    /\ stGet.state = "resolved"
    /\ stGet.after
    /\ stUpdate.settings = [activeDatasourceOnly |-> TRUE, lastUsedDatasourceFilters |-> "A",
                            retentionPeriod |-> 7, starredTabAsFirstTab |-> TRUE]
    /\ stGet.out.starredTabAsFirstTab

====
